---------------------------- MODULE Spec2Model ----------------------------
(***************************************************************************)
(* A model of the pNMR free-induction-decay simulation                     *)
(* (src/FID_simulation.py): the RingMagnet multipole table and its         *)
(* helpers, and the Probe with its RF excitation and flux read-out.        *)
(*                                                                         *)
(* Numbers.  The program computes in double precision floats; the model    *)
(* computes in integers.  Lengths are whole centimetres, angles are whole  *)
(* quarter turns (so pi/2 is 1 and sin, cos take the values 0, 1, -1),     *)
(* times are whole multiples of the integrator's max_step.  A quantity of  *)
(* the multipole table is kept exactly, as num / cm^cmpow.                 *)
(*                                                                         *)
(* Calls.  Every call of a method is one action (the chunk loop of         *)
(* pickup_flux, which may not terminate, is one action per iteration).     *)
(* A call leaves a record of itself in  op , the exception it raised (or   *)
(* <<>>) in  exc  and what it returned in  ret .  None is <<>>, a value v  *)
(* is <<v>>.                                                               *)
(***************************************************************************)
EXTENDS Integers, Sequences, FiniteSets, TLC

VARIABLES
    An,        \* RingMagnet.An: multipole index -> strength
    probe,     \* the Probe object: attribute name -> value; <<>> when none is made
    frame,     \* the locals of a pickup_flux call in its chunk loop, or None
    op,        \* the last call: None before the first, else Some([name, ...])
    exc,       \* the exception the last call raised: None or Some(kind)
    ret,       \* what the last call returned: None or Some(value)
    ncalls,    \* number of calls made so far
    ctor,      \* history: the arguments the probe was constructed with
    rk_res,    \* history: the RK45 solver the last call ran, as the call left it
    prevRead,  \* history: the read-out completed just before the last call, if any
    onlyRF,    \* history: no call but excitations and read-outs since construction
    excitations, \* history: number of excitations that returned
    materialObj, \* the Material object made: None or Some(attribute name -> value)
    noiseObj   \* the Noise object made: None or Some(attribute name -> value)

vars == <<An, probe, frame, op, exc, ret, ncalls, ctor, rk_res, prevRead, onlyRF,
          excitations, materialObj, noiseObj>>

\* the variables of the probe
probeVars == <<probe, frame, ctor, rk_res, prevRead, onlyRF, excitations>>

(***************************************************************************)
(* Bounds of the model.                                                    *)
(***************************************************************************)
\* calls made on one object in one behaviour
MaxCalls == 2

\* how far beyond the allowed range 1..24 a multipole index is tried
IndexMargin == 2

\* calls made on one probe in one behaviour, its construction included
MaxProbeCalls == 4

\* chunks one pickup_flux call may append before the model stops following it
MaxChunks == 4

(***************************************************************************)
(* Small arithmetic.                                                       *)
(***************************************************************************)
Abs(n) == IF n < 0 THEN -n ELSE n

None == <<>>

Some(v) == <<v>>

(***************************************************************************)
(* RingMagnet                                                              *)
(***************************************************************************)
\* the keys of An and P
MultipoleIds == 1..24

\* multipole indices a caller may pass
IndexInputs == (1 - IndexMargin)..(24 + IndexMargin)

\* relative strengths a caller may set, in units of 0.1 ppb
StrengthInputs == {-5, 12}

\* relative strengths a caller may print, in units of 0.1 ppb: below and
\* above 1 ppm
PrintedStrengths == {-5000, 12600}

\* main dipole strengths B0 a magnet is built with
B0Inputs == {1, 2}

\* the quantity num / cm^cmpow; zero has one representation
Q(num, cmpow) == [num |-> num, cmpow |-> IF num = 0 THEN 0 ELSE cmpow]

\* strength /= cm**k
DivCm(q, k) == Q(q.num, q.cmpow + k)

\* a * b
Mul(a, b) == Q(a.num * b.num, a.cmpow + b.cmpow)

\* RingMagnet.__init__: the table An, all zero but the dipole in y
RingMagnetInit(B0) == [i \in MultipoleIds |-> IF i = 2 THEN Q(B0, 0) ELSE Q(0, 0)]

\* the result of a call: the exception raised (or None) and the value returned
Raise(kind) == [exc |-> Some(kind), val |-> None]

Return(v) == [exc |-> None, val |-> v]

\* RingMagnet.multipole_name
multipole_name(multipole) ==
    IF 1 <= multipole /\ multipole <= 3 THEN Return(Some("Dipole"))
    ELSE IF 4 <= multipole /\ multipole <= 8 THEN Return(Some("Quadrupole"))
    ELSE IF 9 <= multipole /\ multipole <= 15 THEN Return(Some("Sextupole"))
    ELSE IF 16 <= multipole /\ multipole <= 24 THEN Return(Some("Octupole"))
    ELSE Raise("ValueError")

\* the strings multipole_vector_str returns, by index
VectorStrTable ==
    << "(1, 0, 0)", "(0, 1, 0)", "(0, 0, 1)",
       "(x, -y, 0)", "(z, 0, x)", "(0, -y, z)", "(y, x, 0)", "(0, z, y)",
       "(x^2-y^2, -2xy, 0)", "(2xz, -2yz, x^2-y^2)", "(z^2-y^2, -2xy, 2xy)",
       "(0, -2yz, z^2-y^2)", "(2xy, x^2-y^2, 0)", "(yz, xz, xy)",
       "(0, z^2-y^2, 2yz)",
       "(x^3-3xy^2, y^3-3x^2y,0)", "(3x^2z-3zy^2, -6xyz, x^3 - 3xy^2)",
       "(3xz^2-3xy^2, -3x^2y-3z^2y+2y^3, 3x^2z-3zy^2)",
       "(z^3-3zy^2, -6xyz, 3xz^2 - 3xy^2)", "(0, y^3-3z^2y, z^3-3zy^2)",
       "(3x^2y-y^3, x^3-3xy^2, 0)", "(6xyz, 3x^2z-3zy^2, 3x^2y-y^3)",
       "(3z^2y-y^3, 3xz^2-3xy^2, 6xyz)", "(0, z^3-3zy^2, 3z^2y-y^3)" >>

\* RingMagnet.multipole_vector_str: a chain of  if multipole==k: return ... ;
\* an index that matches none falls off the end of the function, which
\* returns None
multipole_vector_str(multipole) ==
    IF \E k \in 1..24 : multipole = k
    THEN Return(Some(VectorStrTable[multipole]))
    ELSE Return(None)

\* "%.1f" of n/1000: the number of tenths, rounded half to even
Tenths(n) ==
    LET q == n \div 1000
        r == n % 1000
    IN  IF r > 500 \/ (r = 500 /\ q % 2 = 1) THEN q + 1 ELSE q

\* RingMagnet.strength_to_str: the pieces of the formatted string (the kind
\* of multipole, the number of tenths printed, its unit, the power of cm and
\* the vector string).  strength is in units of 0.1 ppb, so 1 ppm is 10000.
strength_to_str(multipole, strength) ==
    LET str == IF strength < 10000
               THEN <<strength, "ppb">>
               ELSE <<Tenths(strength), "ppm">>
        vec == multipole_vector_str(multipole).val
    IN  IF 1 <= multipole /\ multipole <= 3
        THEN Return(Some(<<"Dipole", str, 0, vec>>))
        ELSE IF 4 <= multipole /\ multipole <= 8
        THEN Return(Some(<<"Quadrupole", str, 1, vec>>))
        ELSE IF 9 <= multipole /\ multipole <= 15
        THEN Return(Some(<<"Sextupole", str, 2, vec>>))
        ELSE IF 16 <= multipole /\ multipole <= 24
        THEN Return(Some(<<"Octupole", str, 3, vec>>))
        ELSE Return(None)

\* set_strength_at_1cm with the bands of the quadrupoles and sextupoles
\* overlapping at 9 (multipole <= 9 for the quadrupoles)
set_strength_at_1cm_WrongBand(table, multipole, strength) ==
    IF multipole < 1 \/ multipole > 24
    THEN [exc |-> Some("ValueError"), An |-> table]
    ELSE LET s == IF 4 <= multipole /\ multipole <= 9 THEN DivCm(strength, 1)
                  ELSE IF 10 <= multipole /\ multipole <= 15 THEN DivCm(strength, 2)
                  ELSE IF 16 <= multipole /\ multipole <= 24 THEN DivCm(strength, 3)
                  ELSE strength
         IN  [exc |-> None,
              An |-> [table EXCEPT ![multipole] = Mul(s, table[2])]]

\* set_strength_at_1cm with the range check after the assignment
set_strength_at_1cm_LateCheck(table, multipole, strength) ==
    IF multipole < 1 \/ multipole > 24
    THEN [exc |-> Some("ValueError"),
          An |-> [i \in DOMAIN table \cup {multipole} |->
                     IF i = multipole THEN Mul(strength, table[2]) ELSE table[i]]]
    ELSE LET s == IF 4 <= multipole /\ multipole <= 8 THEN DivCm(strength, 1)
                  ELSE IF 9 <= multipole /\ multipole <= 15 THEN DivCm(strength, 2)
                  ELSE IF 16 <= multipole /\ multipole <= 24 THEN DivCm(strength, 3)
                  ELSE strength
         IN  [exc |-> None,
              An |-> [table EXCEPT ![multipole] = Mul(s, table[2])]]

\* RingMagnet.set_strength_at_1cm on the table  table : the exception raised
\* and the table afterwards
set_strength_at_1cm(table, multipole, strength) ==
    IF multipole < 1 \/ multipole > 24
    THEN [exc |-> Some("ValueError"), An |-> table]
    ELSE LET s == IF 4 <= multipole /\ multipole <= 8 THEN DivCm(strength, 1)
                  ELSE IF 9 <= multipole /\ multipole <= 15 THEN DivCm(strength, 2)
                  ELSE IF 16 <= multipole /\ multipole <= 24 THEN DivCm(strength, 3)
                  ELSE strength
         IN  [exc |-> None,
              An |-> [table EXCEPT ![multipole] = Mul(s, table[2])]]

\* RingMagnet.P: the three basis functions of multipole i at (x, y, z)
P(i, x, y, z) ==
    CASE i = 1 -> [x |-> 1, y |-> 0, z |-> 0]
      [] i = 2 -> [x |-> 0, y |-> 1, z |-> 0]
      [] i = 3 -> [x |-> 1, y |-> 0, z |-> 1]
      [] i = 4 -> [x |-> x, y |-> -y, z |-> 0]
      [] i = 5 -> [x |-> z, y |-> 0, z |-> x]
      [] i = 6 -> [x |-> 0, y |-> -y, z |-> z]
      [] i = 7 -> [x |-> y, y |-> x, z |-> 0]
      [] i = 8 -> [x |-> 0, y |-> z, z |-> y]
      [] i = 9 -> [x |-> x*x - y*y, y |-> -2*x*y, z |-> 0]
      [] i = 10 -> [x |-> 2*x*z, y |-> -2*y*z, z |-> x*x - y*y]
      [] i = 11 -> [x |-> z*z - y*y, y |-> -2*x*y, z |-> 2*x*y]
      [] i = 12 -> [x |-> 0, y |-> -2*y*z, z |-> z*z - y*y]
      [] i = 13 -> [x |-> 2*x*y, y |-> x*x - y*y, z |-> 0]
      [] i = 14 -> [x |-> y*z, y |-> x*z, z |-> x*y]
      [] i = 15 -> [x |-> 0, y |-> z*z - y*y, z |-> 2*y*z]
      [] i = 16 -> [x |-> x*x*x - 3*x*y*y, y |-> y*y*y - 3*x*x*y, z |-> 0]
      [] i = 17 -> [x |-> 3*x*x*z - 3*z*y*y, y |-> -6*x*y*z,
                    z |-> x*x*x - 3*x*y*y]
      [] i = 18 -> [x |-> 3*x*z*z - 3*x*y*y,
                    y |-> -3*x*x*y - 3*z*z*y + 2*y*y*y,
                    z |-> 3*x*x*z - 3*z*y*y]
      [] i = 19 -> [x |-> z*z*z - 3*z*y*y, y |-> -6*x*y*z,
                    z |-> 3*x*z*z - 3*x*y*y]
      [] i = 20 -> [x |-> 0, y |-> y*y*y - 3*z*z*y, z |-> z*z*z - 3*z*y*y]
      [] i = 21 -> [x |-> 3*x*x*y - y*y*y, y |-> x*x*x - 3*x*y*y, z |-> 0]
      [] i = 22 -> [x |-> 6*x*y*z, y |-> 3*x*x*z - 3*z*y*y,
                    z |-> 3*x*x*y - y*y*y]
      [] i = 23 -> [x |-> 3*z*z*y - y*y*y, y |-> 3*x*z*z - 3*x*y*y,
                    z |-> 6*x*y*z]
      [] i = 24 -> [x |-> 0, y |-> z*z*z - 3*z*y*y, z |-> 3*z*z*y - y*y*y]

\* the function f with every value computed
Fn(f) == f @@ <<>>

\* the array f = [k \in 1..n |-> ...] with every entry computed
Arr(f) == f \o <<>>

RECURSIVE SumFromTo(_, _, _)
SumFromTo(f, lo, hi) == IF lo > hi THEN 0 ELSE f[lo] + SumFromTo(f, lo + 1, hi)

\* the sum of f[i] over the interval S = lo..hi of integers
SumOver(f, S) ==
    IF S = {} THEN 0
    ELSE SumFromTo(f, CHOOSE j \in S : \A k \in S : j <= k,
                   CHOOSE j \in S : \A k \in S : j >= k)

\* RingMagnet.B_field / __call__ on the table  table : [Bx, By, Bz] at the
\* point (x, y, z).  The point is in cm, so a strength num / cm^k times a
\* basis function of degree k is the number num * P.
B_field(table, x, y, z) ==
    LET term == Fn([i \in MultipoleIds |->
                     LET b == P(i, x, y, z)
                     IN  <<table[i].num * b.x, table[i].num * b.y, table[i].num * b.z>>])
    IN  << SumOver(Fn([i \in MultipoleIds |-> term[i][1]]), MultipoleIds),
           SumOver(Fn([i \in MultipoleIds |-> term[i][2]]), MultipoleIds),
           SumOver(Fn([i \in MultipoleIds |-> term[i][3]]), MultipoleIds) >>

(***************************************************************************)
(* Floating point as integers.                                             *)
(***************************************************************************)
\* a / b, rounded towards zero
Quot(a, b) ==
    IF (a < 0) = (b < 0) THEN Abs(a) \div Abs(b) ELSE -(Abs(a) \div Abs(b))

\* np.sqrt(n), rounded down
Isqrt(n) == CHOOSE r \in 0..n : r * r <= n /\ (r + 1) * (r + 1) > n

\* np.sin and np.cos of an angle of q quarter turns
Sin4(q) == LET k == q % 4 IN IF k = 1 THEN 1 ELSE IF k = 3 THEN -1 ELSE 0

Cos4(q) == Sin4(q + 1)

\* 100 * (exp(e) - exp(-e)) / (exp(e) + exp(-e)), rounded
TanhPercent(e) ==
    LET a == Abs(e)
        v == IF a = 0 THEN 0 ELSE IF a = 1 THEN 76 ELSE IF a = 2 THEN 96 ELSE 100
    IN  IF e < 0 THEN -v ELSE v

\* np.arctan(num / den) in quarter turns, rounded: pi/4 and more rounds to 1
ArcTan4(num, den) ==
    IF den = 0 THEN (IF num < 0 THEN -1 ELSE 1)
    ELSE IF Abs(num) >= Abs(den) THEN (IF (num < 0) = (den < 0) THEN 1 ELSE -1)
    ELSE 0

\* 100 * np.exp(-t / T2), rounded
ExpPercent(t, T2) ==
    LET e == Quot(t, T2)
    IN  IF e <= 0 THEN 100 ELSE IF e = 1 THEN 37 ELSE IF e = 2 THEN 14
        ELSE IF e = 3 THEN 5 ELSE 0

RECURSIVE SeqSum(_)
\* np.sum of the array a
SeqSum(a) == IF a = <<>> THEN 0 ELSE a[1] + SeqSum(Tail(a))

\* the physical constants of numericalunits, in the model's units
hbar == 2

kB == 1

\* 1 / mu0
Mu0Inv == 64

(***************************************************************************)
(* Material                                                                *)
(***************************************************************************)
\* Material.__init__; an optional argument is None or Some(value)
MaterialInit(name, formula, density, molar_mass, T1, T2, gyromagnetic_ratio) ==
    IF gyromagnetic_ratio = None
    THEN Raise("TypeError")
    ELSE Return(Some([name |-> name,
                      formula |-> formula,
                      density |-> density,
                      molar_mass |-> molar_mass,
                      T1 |-> T1,
                      T2 |-> T2,
                      gyromagnetic_ratio |-> gyromagnetic_ratio,
                      magnetic_moment |-> Quot(gyromagnetic_ratio[1] * hbar, 2)]))

\* Material.number_density
number_density(material) == Quot(material.density[1], material.molar_mass[1])

\* Material.__str__: the name and the list info the string is joined from,
\* each piece a value with the unit printed after it
MaterialStr(m) ==
    [name |-> m.name,
     info |-> (IF m.formula # None THEN <<<<m.formula[1], "">>>> ELSE <<>>)
              \o (IF m.density # None THEN <<<<m.density[1], "g/cm^3">>>> ELSE <<>>)
              \o (IF m.molar_mass # None THEN <<<<m.molar_mass[1], "g/mol">>>> ELSE <<>>)
              \o (IF m.T1 # None THEN <<<<m.T1[1], "ms">>>> ELSE <<>>)
              \o (IF m.T2 # None THEN <<<<m.T2[1], "ms">>>> ELSE <<>>)
              \o (IF m.gyromagnetic_ratio # None
                  THEN <<<<m.gyromagnetic_ratio[1], "Hz/T">>>> ELSE <<>>)]

\* the module's PetroleumJelly, in the model's units
PetroleumJelly ==
    MaterialInit("Petroleum Jelly", Some("C40H46N4O10"), Some(2), Some(1),
                 Some(4), Some(2), Some(1)).val[1]

(***************************************************************************)
(* Coil                                                                    *)
(***************************************************************************)
\* Coil.__init__
CoilInit(turns, length, diameter, current) ==
    [turns |-> turns, length |-> length, radius |-> Quot(diameter, 2),
     current |-> current]

\* 4 pi / mu0, times the fixed-point scale of the integrand
BiotSavartDen == 64

\* the fixed-point scale of the Biot-Savart integrand
IntegrandScale == 100

\* integrate.simps of the samples f[0..n] (n even) at spacing 1
Simps(f, n) ==
    Quot(SumOver(Fn([k \in 0..n |->
                     (IF k = 0 \/ k = n THEN 1 ELSE IF k % 2 = 1 THEN 4 ELSE 2) * f[k]]),
                 0..n), 3)

\* Coil.B_field: [B_x, B_y, B_z] of the helix at the point (x, y, z).  The
\* helix is sampled at every quarter turn (the program takes 10000 samples).
CoilBField(coil, x, y, z) ==
    LET n == 4 * coil.turns
        lx(k) == coil.radius * Sin4(k)
        ly(k) == coil.radius * Cos4(k)
        lz(k) == Quot(coil.length * (k - 2 * coil.turns), 4 * coil.turns)
        dlx(k) == ly(k)
        dly(k) == -lx(k)
        dlz == Quot(coil.length, 4 * coil.turns)
        dist == Fn([k \in 0..n |->
                     Isqrt((lx(k) - x) * (lx(k) - x) + (ly(k) - y) * (ly(k) - y)
                           + (lz(k) - z) * (lz(k) - z))])
        d3(k) == dist[k] * dist[k] * dist[k]
        integrand_x == Fn([k \in 0..n |->
            Quot(IntegrandScale * (dly(k) * (z - lz(k)) - dlz * (y - ly(k))), d3(k))])
        integrand_y == Fn([k \in 0..n |->
            Quot(IntegrandScale * (dlz * (x - lx(k)) - dlx(k) * (z - lz(k))), d3(k))])
        integrand_z == Fn([k \in 0..n |->
            Quot(IntegrandScale * (dlx(k) * (y - ly(k)) - dly(k) * (x - lx(k))), d3(k))])
    IN  << Quot(coil.current * Simps(integrand_x, n), BiotSavartDen),
           Quot(coil.current * Simps(integrand_y, n), BiotSavartDen),
           Quot(coil.current * Simps(integrand_z, n), BiotSavartDen) >>

\* the coil of FixedProbe, in the model's units
fix_probe_coil == CoilInit(1, 4, 6, 1)

(***************************************************************************)
(* Probe: construction and the cells                                       *)
(***************************************************************************)
\* the period of the model's random number generator
RngMod == 16

\* np.random.RandomState(seed): the generator's state
RandomState(seed) == seed % RngMod

RECURSIVE RngAfter(_, _)
\* the generator's state after k draws
RngAfter(s, k) == IF k = 0 THEN s ELSE RngAfter((5 * s + 3) % RngMod, k - 1)

\* rng.uniform(lo, hi, size=size) from state s: the array drawn
uniform(s, lo, hi, size) ==
    Arr([k \in 1..size |-> lo + Quot((hi - lo) * RngAfter(s, k), RngMod)])

\* the object p with the attributes of the record  new  set
With(p, new) == new @@ p

\* hasattr(p, name)
hasattr(p, name) == name \in DOMAIN p

\* the length numpy broadcasts arrays of the lengths in S to, or -1 when
\* they do not broadcast
BroadcastLen(S) ==
    LET L == CHOOSE n \in S : \A m \in S : m <= n
    IN  IF \A m \in S : m = L \/ m = 1 THEN L ELSE -1

\* entry k of the array a, broadcast
At(a, k) == IF Len(a) = 1 THEN a[1] ELSE a[k]

\* lines 416-419 of initialize_cells: the positions drawn for N_cells cells,
\* and the generator after the draws
cells_positions(p, N_cells) ==
    LET r == Arr([k \in 1..N_cells |->
                Isqrt(uniform(p.rng, 0, p.radius * p.radius, N_cells)[k])])
        phi == uniform(RngAfter(p.rng, N_cells), 0, 4, N_cells)
    IN  [cells_x |-> Arr([k \in 1..N_cells |-> r[k] * Sin4(phi[k])]),
         cells_y |-> Arr([k \in 1..N_cells |-> r[k] * Cos4(phi[k])]),
         cells_z |-> uniform(RngAfter(p.rng, 2 * N_cells),
                             -Quot(p.length, 2), Quot(p.length, 2), N_cells),
         rng |-> RngAfter(p.rng, 3 * N_cells)]

\* lines 423-430 of initialize_cells: the attributes computed from the
\* external field B0 at the cells
cells_field_attributes(p, N_cells, B0) ==
    LET cells_B0 == Arr([k \in 1..N_cells |->
                        Isqrt(B0[k][1] * B0[k][1] + B0[k][2] * B0[k][2]
                              + B0[k][3] * B0[k][3])])
        polarization == Arr([k \in 1..N_cells |->
                            TanhPercent(Quot(p.material.magnetic_moment * cells_B0[k],
                                             kB * p.temp))])
        magnetization == Arr([k \in 1..N_cells |->
                            p.material.magnetic_moment * number_density(p.material)
                            * polarization[k]])
    IN  [cells_B0_x |-> Arr([k \in 1..N_cells |-> B0[k][1]]),
         cells_B0_y |-> Arr([k \in 1..N_cells |-> B0[k][2]]),
         cells_B0_z |-> Arr([k \in 1..N_cells |-> B0[k][3]]),
         cells_B0 |-> cells_B0,
         cells_nuclear_polarization |-> polarization,
         cells_magnetization |-> magnetization,
         cells_dipole_moment_mag |->
            Arr([k \in 1..N_cells |-> Quot(magnetization[k] * p.V_cell, N_cells)])]

\* lines 421-430 of initialize_cells, on the probe with its cells placed
cells_in_field(table, placed, N_cells) ==
    IF N_cells = 0
    THEN \* B0 is an empty array of one dimension: B0[:,0] is an IndexError
         [exc |-> Some("IndexError"), probe |-> placed]
    ELSE [exc |-> None,
          probe |-> With(placed,
             cells_field_attributes(placed, N_cells,
                Arr([k \in 1..N_cells |->
                       B_field(table, placed.cells_x[k], placed.cells_y[k],
                               placed.cells_z[k])])))]

\* Probe.initialize_cells(N_cells) on the probe p in the field of the magnet
\* table : the exception raised and the probe afterwards
initialize_cells(table, p, N_cells) ==
    IF N_cells < 0
    THEN \* rng.uniform(size=N_cells) raises before anything is written
         [exc |-> Some("ValueError"), probe |-> p]
    ELSE cells_in_field(table, With(p, cells_positions(p, N_cells)), N_cells)

\* the outcome of a constructor whose body had the outcome r: no object when
\* an exception left it
constructed(r) == IF r.exc = None THEN r ELSE [exc |-> r.exc, probe |-> <<>>]

\* Probe.__init__: the exception raised and the probe made (no attribute at
\* all when the construction fails).  V_cell is in units of pi.
ProbeInit(table, length, diameter, material, temp, coil, N_cells, seed) ==
    constructed(initialize_cells(table,
                    [length |-> length, radius |-> Quot(diameter, 2),
                     V_cell |-> length * Quot(diameter, 2) * Quot(diameter, 2),
                     material |-> material, temp |-> temp, coil |-> coil,
                     rng |-> RandomState(seed), N_cells |-> N_cells],
                    N_cells))

\* lines 435-438 of initialize_coil_field: the attributes computed from the
\* coil's field B1 at the cells
coil_field_attributes(B1) ==
    [cells_B1_x |-> Arr([k \in 1..Len(B1) |-> B1[k][1]]),
     cells_B1_y |-> Arr([k \in 1..Len(B1) |-> B1[k][2]]),
     cells_B1_z |-> Arr([k \in 1..Len(B1) |-> B1[k][3]]),
     cells_B1 |-> Arr([k \in 1..Len(B1) |->
                     Isqrt(B1[k][1] * B1[k][1] + B1[k][2] * B1[k][2]
                           + B1[k][3] * B1[k][3])])]

\* Probe.initialize_coil_field
initialize_coil_field(p) ==
    IF Len(p.cells_x) = 0
    THEN \* B1 is an empty array of one dimension: B1[:,0] is an IndexError
         [exc |-> Some("IndexError"), probe |-> p]
    ELSE [exc |-> None,
          probe |-> With(p, coil_field_attributes(
             Arr([k \in 1..Len(p.cells_x) |->
                    CoilBField(p.coil, p.cells_x[k], p.cells_y[k], p.cells_z[k])])))]

\* Probe.t_90; pi/2 is one quarter turn
t_90(p) ==
    LET brf == CoilBField(p.coil, 0, 0, 0)
        b1 == Quot(Isqrt(brf[1] * brf[1] + brf[2] * brf[2] + brf[3] * brf[3]), 2)
    IN  Quot(1, p.material.gyromagnetic_ratio[1] * b1)

\* the probe, with its coil field when it has none yet
WithCoilField(p) ==
    IF hasattr(p, "cells_B1") THEN [exc |-> None, probe |-> p]
    ELSE initialize_coil_field(p)

\* lines 446-451 of apply_rf_field: the magnetization after a pulse of
\* duration t in the coil field of the probe q
rf_attributes(q, t) ==
    LET n == Len(q.cells_B1)
        angle == Arr([k \in 1..n |->
                    Quot(q.material.gyromagnetic_ratio[1] * q.cells_B1[k] * t, 2)])
        mu_x == Arr([k \in 1..n |-> Sin4(angle[k])])
        mu_z == Arr([k \in 1..n |-> Sin4(angle[k])])
    IN  [cells_mu_x |-> mu_x,
         cells_mu_y |-> Arr([k \in 1..n |-> Cos4(angle[k])]),
         cells_mu_z |-> mu_z,
         cells_mu_T |-> Arr([k \in 1..n |->
                           Isqrt(mu_x[k] * mu_x[k] + mu_z[k] * mu_z[k])])]

\* apply_rf_field once the coil field is there (c, the outcome of getting it)
apply_rf_field_in(c, t) ==
    IF c.exc # None THEN c
    ELSE [exc |-> None, probe |-> With(c.probe, rf_attributes(c.probe, t))]

\* Probe.apply_rf_field(time): the exception raised and the probe afterwards
apply_rf_field(p, time) ==
    apply_rf_field_in(WithCoilField(p), IF time = None THEN t_90(p) ELSE time[1])

(***************************************************************************)
(* Probe: numerical solution of the Bloch equation                         *)
(***************************************************************************)
\* the largest magnitude a float holds; beyond it a value is inf or nan
FloatMax == 100

\* the initial conditions a caller passes to apply_rf_field_nummerical, as
\* arrays of shape [3, N_cells]: None, every cell along y, or every cell at
\* the largest float along x
InitialCondition(kind, n) ==
    IF kind = "None" THEN None
    ELSE IF kind = "along_y"
    THEN Some(<<Arr([k \in 1..n |-> 0]), Arr([k \in 1..n |-> 1]), Arr([k \in 1..n |-> 0])>>)
    ELSE Some(<<Arr([k \in 1..n |-> FloatMax]), Arr([k \in 1..n |-> 0]), Arr([k \in 1..n |-> 0])>>)

\* Bloch_equation(t, M) inside apply_rf_field_nummerical, for M already
\* reshaped to <<Mx, My, Mz>> and arrays that broadcast to length n
Bloch_equation(p, n, t, M, omega_rf, with_relaxation, with_self_contribution) ==
    LET g == p.material.gyromagnetic_ratio[1]
        self(k, Mc) == IF with_self_contribution
                       THEN Quot(At(p.cells_magnetization, k) * At(Mc, k), Mu0Inv)
                       ELSE 0
        rf(B1c, k) == IF omega_rf # None
                      THEN Sin4(omega_rf[1] * t) * At(B1c, k)
                      ELSE 0
        Bx == Arr([k \in 1..n |-> At(p.cells_B0_x, k) + self(k, M[1])
                                + rf(p.cells_B1_x, k)])
        By == Arr([k \in 1..n |-> At(p.cells_B0_y, k) + self(k, M[2])
                                + rf(p.cells_B1_y, k)])
        Bz == Arr([k \in 1..n |-> At(p.cells_B0_z, k) + self(k, M[3])
                                + rf(p.cells_B1_z, k)])
        Mx(k) == At(M[1], k)
        My(k) == At(M[2], k)
        Mz(k) == At(M[3], k)
    IN  << Arr([k \in 1..n |-> g * (My(k) * Bz[k] - Mz(k) * By[k])
                - (IF with_relaxation THEN Quot(Mx(k), p.material.T2[1]) ELSE 0)]),
           Arr([k \in 1..n |-> g * (Mz(k) * Bx[k] - Mx(k) * Bz[k])
                - (IF with_relaxation THEN Quot(My(k) - 1, p.material.T1[1]) ELSE 0)]),
           Arr([k \in 1..n |-> g * (Mx(k) * By[k] - My(k) * Bx[k])
                - (IF with_relaxation THEN Quot(Mz(k), p.material.T2[1]) ELSE 0)]) >>

\* whether every component of the state y is a finite float
Finite(y) == \A c \in 1..3 : \A k \in 1..Len(y[c]) : Abs(y[c][k]) <= FloatMax

\* integrate.RK45(fun, t0=0, y0, t_bound, max_step): the solver object.  Time
\* is counted in steps of max_step.
RK45(y0, t_bound) ==
    [t |-> 0, y |-> y0, t_bound |-> t_bound, status |-> "running",
     direction |-> IF t_bound < 0 THEN -1 ELSE 1]

\* RK45.step(): one step of max_step towards t_bound.  A step whose result
\* is not finite cannot be made however small: the solver fails.
RK45_step(p, rk, omega_rf, with_relaxation, with_self_contribution) ==
    IF rk.t = rk.t_bound
    THEN [rk EXCEPT !.status = "finished"]
    ELSE LET n == Len(rk.y[1])
             f == Bloch_equation(p, n, rk.t, rk.y, omega_rf, with_relaxation,
                                 with_self_contribution)
             y_new == Arr([c \in 1..3 |-> Arr([k \in 1..n |-> rk.y[c][k] + rk.direction * f[c][k]])])
             t_new == rk.t + rk.direction
         IN  IF ~Finite(y_new)
             THEN [rk EXCEPT !.status = "failed"]
             ELSE [rk EXCEPT !.t = t_new, !.y = y_new,
                             !.status = IF rk.direction * (t_new - rk.t_bound) >= 0
                                        THEN "finished" ELSE "running"]

\* np.argmin(a), counted from 1
ArgMin(a) == CHOOSE i \in 1..Len(a) :
                /\ \A j \in 1..Len(a) : a[i] <= a[j]
                /\ \A j \in 1..(i - 1) : a[j] > a[i]

\* np.mean(a)
Mean(a) == Quot(SeqSum(a), Len(a))

RECURSIVE RK45_loop(_, _, _, _, _, _, _, _)
\* the loop  while rk_res.status == "running"  of apply_rf_field_nummerical:
\* the solver, the last M taken and the history when the loop is left
RK45_loop(p, rk, M, history, idx, omega_rf, with_relaxation, with_self_contribution) ==
    IF rk.status # "running"
    THEN [rk |-> rk, M |-> M, history |-> history]
    ELSE RK45_loop(p,
                   RK45_step(p, rk, omega_rf, with_relaxation, with_self_contribution),
                   rk.y,
                   Append(history, <<rk.t, Mean(rk.y[1]), Mean(rk.y[2]), Mean(rk.y[3]),
                                     rk.y[1][idx], rk.y[2][idx], rk.y[3][idx]>>),
                   idx, omega_rf, with_relaxation, with_self_contribution)

\* the equilibrium magnetization, but the magnetization of the last
\* excitation where there is one
EquilibriumCondition_Carry(p) ==
    IF hasattr(p, "cells_mu_x")
    THEN <<p.cells_mu_x, p.cells_mu_y, p.cells_mu_z>>
    ELSE << Arr([k \in 1..Len(p.cells_B0) |-> Quot(p.cells_B0_x[k], p.cells_B0[k])]),
            Arr([k \in 1..Len(p.cells_B0) |-> Quot(p.cells_B0_y[k], p.cells_B0[k])]),
            Arr([k \in 1..Len(p.cells_B0) |-> Quot(p.cells_B0_z[k], p.cells_B0[k])]) >>

\* the initial condition taken when none is given: the equilibrium
\* magnetization, along the external field
EquilibriumCondition(p) ==
    << Arr([k \in 1..Len(p.cells_B0) |-> Quot(p.cells_B0_x[k], p.cells_B0[k])]),
       Arr([k \in 1..Len(p.cells_B0) |-> Quot(p.cells_B0_y[k], p.cells_B0[k])]),
       Arr([k \in 1..Len(p.cells_B0) |-> Quot(p.cells_B0_z[k], p.cells_B0[k])]) >>

\* lines 564-567 of apply_rf_field_nummerical: the magnetization stored
mu_attributes(M) ==
    [cells_mu_x |-> M[1], cells_mu_y |-> M[2], cells_mu_z |-> M[3],
     cells_mu_T |-> Arr([k \in 1..Len(M[1]) |->
                       Isqrt(M[1][k] * M[1][k] + M[3][k] * M[3][k])])]

\* line 550: the index of the cell nearest the center
central_cell(q) ==
    ArgMin(Arr([k \in 1..Len(q.cells_x) |->
                  q.cells_x[k] * q.cells_x[k] + q.cells_y[k] * q.cells_y[k]
                  + q.cells_z[k] * q.cells_z[k]]))

\* lines 564-569: what the call stores and returns after the loop ended as
\* run
nummerical_return(q, run) ==
    [exc |-> None,
     probe |-> With(q, mu_attributes(run.M)),
     val |-> Some(run.history),
     rk |-> Some(run.rk)]

\* lines 508-569, on the probe q with its coil field, for the initial
\* condition y0 and the pulse duration t.  RK45 calls Bloch_equation on y0:
\* the reshape to (3, N_cells) and the arithmetic of arrays of other lengths
\* raise ValueError.
nummerical_solve(q, t, y0, omega_rf, with_relaxation, with_self_contribution) ==
    IF \/ Len(q.cells_x) = 0
       \/ Len(y0[1]) # q.N_cells
       \/ BroadcastLen({q.N_cells, Len(q.cells_B0)}
                       \cup (IF omega_rf # None THEN {Len(q.cells_B1)} ELSE {}))
             # q.N_cells
    THEN [exc |-> Some("ValueError"), probe |-> q, val |-> None, rk |-> None]
    ELSE IF central_cell(q) > q.N_cells
    THEN [exc |-> Some("IndexError"), probe |-> q, val |-> None, rk |-> None]
    ELSE nummerical_return(q,
            RK45_loop(q, RK45(y0, t), y0, <<>>, central_cell(q), omega_rf,
                      with_relaxation, with_self_contribution))

\* apply_rf_field_nummerical once the coil field is there (c, the outcome of
\* getting it)
nummerical_in(c, t, y0, omega_rf, with_relaxation, with_self_contribution) ==
    IF c.exc # None THEN [exc |-> c.exc, probe |-> c.probe, val |-> None, rk |-> None]
    ELSE nummerical_solve(c.probe, t, y0, omega_rf, with_relaxation,
                          with_self_contribution)

\* Probe.apply_rf_field_nummerical: the exception raised, the probe
\* afterwards, the history returned and the solver as the call leaves it.
\* (The parameter time_step is never read.)
apply_rf_field_nummerical(p, time, initial_condition, omega_rf, with_relaxation, with_self_contribution) ==
    nummerical_in(WithCoilField(p),
                  IF time = None THEN t_90(p) ELSE time[1],
                  IF initial_condition = None THEN EquilibriumCondition(p)
                  ELSE initial_condition[1],
                  omega_rf, with_relaxation, with_self_contribution)

(***************************************************************************)
(* Probe: flux read-out                                                    *)
(***************************************************************************)
\* max_memory of pickup_flux.  The program's budget is 10000000 operations
\* per chunk; the model scales it down to 2, so that probes of 1, 2 and 3
\* cells stand for probes below, at half of and above the budget.
max_memory == 2

\* the Python slice t[a:b], for 0 <= a
Slice(t, a, b) == SubSeq(t, a + 1, IF b < Len(t) THEN b ELSE Len(t))

\* the Python slice t[a:], for 0 <= a
SliceFrom(t, a) == SubSeq(t, a + 1, Len(t))

\* what pickup_flux computes of one chunk this_t of the times, before the
\* division by N_cells: one value for each time of the chunk
FluxChunk(p, this_t, mix_down, useAverage) ==
    LET g == p.material.gyromagnetic_ratio[1]
        T2 == p.material.T2[1]
        n == BroadcastLen({Len(p.cells_mu_T), Len(p.cells_B0), Len(p.cells_B1)})
        magnitude(k) == At(p.cells_mu_T, k)
                        * Isqrt((g * At(p.cells_B0, k)) * (g * At(p.cells_B0, k))
                                + Quot(1, T2 * T2))
        phase(k) == ArcTan4(1, T2 * g * At(p.cells_B0, k))
        omega_mixed(k) == g * At(p.cells_B0, k) - 4 * mix_down
        argument(k, i) == omega_mixed(k) * this_t[i] - phase(k)
        B_x_dmu_dt(k, i) ==
            magnitude(k)
            * (At(p.cells_B1_x, k) * Cos4(argument(k, i))
               + At(p.cells_B1_z, k) * Sin4(argument(k, i)))
            * ExpPercent(this_t[i], T2)
    IN  Arr([i \in 1..Len(this_t) |->
           IF useAverage
           THEN Quot(p.coil.turns
                     * SumOver(Arr([k \in 1..n |->
                                  B_x_dmu_dt(k, i) * At(p.cells_magnetization, k)]), 1..n)
                     * p.coil.radius * p.coil.radius,
                     Mu0Inv * Mean(p.cells_B1))
           ELSE Quot(p.coil.turns
                     * SumOver(Arr([k \in 1..n |->
                                  Quot(B_x_dmu_dt(k, i) * At(p.cells_magnetization, k),
                                       At(p.cells_B1, k))]), 1..n)
                     * p.coil.radius * p.coil.radius,
                     Mu0Inv)])

RECURSIVE Concatenate(_)
\* np.concatenate(results)
Concatenate(results) ==
    IF results = <<>> THEN <<>> ELSE Head(results) \o Concatenate(Tail(results))

\* pickup_flux returning nothing, without an error, from a probe that was
\* never excited
pickup_flux_enter_Silent(p, t, mix_down, useAverage) ==
    IF ~hasattr(p, "cells_mu_T")
    THEN [exc |-> None, frame |-> None]
    ELSE IF BroadcastLen({Len(p.cells_mu_T), Len(p.cells_B0), Len(p.cells_B1)}) = -1
    THEN [exc |-> Some("ValueError"), frame |-> None]
    ELSE [exc |-> None,
          frame |-> Some([t |-> t, mix_down |-> mix_down, useAverage |-> useAverage,
                          N_cells |-> Len(p.cells_B0),
                          idx_start |-> 0, idx_end |-> 0, results |-> <<>>])]

\* the first lines of pickup_flux (613-622): the exception raised, or the
\* locals of the chunk loop as it is entered.  Arrays of lengths that do not
\* broadcast raise ValueError (here, or in the first turn of the loop before
\* anything is appended).
pickup_flux_enter(p, t, mix_down, useAverage) ==
    IF ~hasattr(p, "cells_mu_T")
    THEN [exc |-> Some("AttributeError"), frame |-> None]
    ELSE IF BroadcastLen({Len(p.cells_mu_T), Len(p.cells_B0), Len(p.cells_B1)}) = -1
    THEN [exc |-> Some("ValueError"), frame |-> None]
    ELSE [exc |-> None,
          frame |-> Some([t |-> t, mix_down |-> mix_down, useAverage |-> useAverage,
                          N_cells |-> Len(p.cells_B0),
                          idx_start |-> 0, idx_end |-> 0, results |-> <<>>])]

\* one turn of the loop  while idx_end != -1  of pickup_flux (623-643): the
\* locals after it
pickup_flux_turn(p, f) ==
    LET idx_start == f.idx_end
        more == f.N_cells * Len(SliceFrom(f.t, idx_start)) > max_memory
        idx_end == IF more THEN idx_start + (max_memory \div f.N_cells) ELSE -1
        this_t == IF more THEN Slice(f.t, idx_start, idx_end)
                  ELSE SliceFrom(f.t, idx_start)
    IN  [f EXCEPT !.idx_start = idx_start,
                  !.idx_end = idx_end,
                  !.results = Append(f.results,
                                     FluxChunk(p, this_t, f.mix_down, f.useAverage))]

\* the last lines of pickup_flux (644-645): the array returned
pickup_flux_result(f) ==
    LET all == Concatenate(f.results)
    IN  Arr([i \in 1..Len(all) |-> Quot(all[i], f.N_cells)])

(***************************************************************************)
(* The magnet's calls.                                                     *)
(***************************************************************************)
MagnetInit ==
    /\ An \in {RingMagnetInit(B0) : B0 \in B0Inputs}
    /\ op = None
    /\ exc = None
    /\ ret = None
    /\ ncalls = 0
    /\ probe = <<>>
    /\ frame = None
    /\ ctor = None
    /\ rk_res = None
    /\ prevRead = None
    /\ onlyRF = TRUE
    /\ excitations = 0
    /\ materialObj = None
    /\ noiseObj = None

SetStrengthAt1cm(multipole, strength) ==
    LET r == set_strength_at_1cm(An, multipole, Q(strength, 0))
    IN  /\ ncalls < MaxCalls
        /\ An' = r.An
        /\ op' = Some([name |-> "set_strength_at_1cm",
                       multipole |-> multipole, strength |-> strength])
        /\ exc' = r.exc
        /\ ret' = None
        /\ ncalls' = ncalls + 1
        /\ UNCHANGED <<probeVars, materialObj, noiseObj>>

CallMultipoleName(multipole) ==
    LET r == multipole_name(multipole)
    IN  /\ ncalls < MaxCalls
        /\ op' = Some([name |-> "multipole_name",
                       multipole |-> multipole, strength |-> 0])
        /\ exc' = r.exc
        /\ ret' = r.val
        /\ ncalls' = ncalls + 1
        /\ UNCHANGED <<An, materialObj, noiseObj, probeVars>>

CallMultipoleVectorStr(multipole) ==
    LET r == multipole_vector_str(multipole)
    IN  /\ ncalls < MaxCalls
        /\ op' = Some([name |-> "multipole_vector_str",
                       multipole |-> multipole, strength |-> 0])
        /\ exc' = r.exc
        /\ ret' = r.val
        /\ ncalls' = ncalls + 1
        /\ UNCHANGED <<An, materialObj, noiseObj, probeVars>>

CallStrengthToStr(multipole, strength) ==
    LET r == strength_to_str(multipole, strength)
    IN  /\ ncalls < MaxCalls
        /\ op' = Some([name |-> "strength_to_str",
                       multipole |-> multipole, strength |-> strength])
        /\ exc' = r.exc
        /\ ret' = r.val
        /\ ncalls' = ncalls + 1
        /\ UNCHANGED <<An, materialObj, noiseObj, probeVars>>

MagnetNext ==
    \/ \E m \in IndexInputs, s \in StrengthInputs : SetStrengthAt1cm(m, s)
    \/ \E m \in IndexInputs : CallMultipoleName(m)
    \/ \E m \in IndexInputs : CallMultipoleVectorStr(m)
    \/ \E m \in IndexInputs, s \in PrintedStrengths : CallStrengthToStr(m, s)

SpecMagnet == MagnetInit /\ [][MagnetNext]_vars

(***************************************************************************)
(* The probe's calls.  One probe is constructed in the field of a magnet   *)
(* (as FixedProbe does: of PetroleumJelly, with fix_probe_coil), and its   *)
(* methods are called one after the other.                                 *)
(***************************************************************************)
\* the magnets a probe is placed in: a dipole with a skew quadrupole
ProbeMagnets == {[RingMagnetInit(2) EXCEPT ![7] = Q(1, 1)]}

\* the probe's temperature
ProbeTemp == 1

\* arguments of the constructor: length, diameter (both in cm), number of
\* cells and seed
ConstructInputs ==
    { [length |-> 2, diameter |-> 4, N_cells |-> 1, seed |-> 0],
      [length |-> 2, diameter |-> 4, N_cells |-> 2, seed |-> 1],
      [length |-> 2, diameter |-> 4, N_cells |-> 3, seed |-> 0],
      [length |-> 2, diameter |-> 4, N_cells |-> 3, seed |-> 1],
      [length |-> 0, diameter |-> 4, N_cells |-> 3, seed |-> 0],
      [length |-> -2, diameter |-> 4, N_cells |-> 1, seed |-> 0],
      [length |-> 2, diameter |-> 0, N_cells |-> 1, seed |-> 0],
      [length |-> 2, diameter |-> 4, N_cells |-> 0, seed |-> 0],
      [length |-> 2, diameter |-> 4, N_cells |-> -1, seed |-> 1] }

\* pulse durations passed to apply_rf_field
TimeInputs == {None, Some(-1), Some(0), Some(2)}

\* arguments passed to apply_rf_field_nummerical
NumericalInputs ==
    { [time |-> None, initial_condition |-> "None", omega_rf |-> Some(1),
       with_relaxation |-> FALSE, with_self_contribution |-> TRUE],
      [time |-> Some(3), initial_condition |-> "None", omega_rf |-> Some(1),
       with_relaxation |-> FALSE, with_self_contribution |-> TRUE],
      [time |-> Some(0), initial_condition |-> "None", omega_rf |-> Some(1),
       with_relaxation |-> FALSE, with_self_contribution |-> TRUE],
      [time |-> Some(-2), initial_condition |-> "None", omega_rf |-> None,
       with_relaxation |-> TRUE, with_self_contribution |-> FALSE],
      [time |-> Some(2), initial_condition |-> "along_y", omega_rf |-> Some(1),
       with_relaxation |-> TRUE, with_self_contribution |-> FALSE],
      [time |-> Some(2), initial_condition |-> "max_x", omega_rf |-> Some(1),
       with_relaxation |-> FALSE, with_self_contribution |-> TRUE] }

\* arguments passed to pickup_flux
ReadInputs ==
    { [t |-> <<>>, mix_down |-> 0, useAverage |-> TRUE],
      [t |-> <<1>>, mix_down |-> 0, useAverage |-> TRUE],
      [t |-> <<0, 1, 2>>, mix_down |-> 0, useAverage |-> TRUE],
      [t |-> <<0, 1, 2>>, mix_down |-> 1, useAverage |-> FALSE] }

\* cell counts passed to initialize_cells on a probe that exists
ReinitInputs == {0, 1, 2}

ProbeSpecInit ==
    /\ An \in ProbeMagnets
    /\ op = None
    /\ exc = None
    /\ ret = None
    /\ ncalls = 0
    /\ probe = <<>>
    /\ frame = None
    /\ ctor = None
    /\ rk_res = None
    /\ prevRead = None
    /\ onlyRF = TRUE
    /\ excitations = 0
    /\ materialObj = None
    /\ noiseObj = None

\* a probe has been constructed
Constructed == DOMAIN probe # {}

\* a method of the probe may be called: there is a probe and no call is running
Ready == Constructed /\ frame = None /\ ncalls < MaxProbeCalls

\* FixedProbe(B_field, N_cells, seed), with the length and diameter open
Construct(length, diameter, N_cells, seed) ==
    LET args == [name |-> "Probe", length |-> length, diameter |-> diameter,
                 N_cells |-> N_cells, seed |-> seed]
    IN  /\ ctor = None
        /\ ncalls < MaxProbeCalls
        /\ \E r \in {ProbeInit(An, length, diameter, PetroleumJelly, ProbeTemp,
                              fix_probe_coil, N_cells, seed)} :
              /\ probe' = r.probe
              /\ exc' = r.exc
        /\ ret' = None
        /\ op' = Some(args)
        /\ ctor' = Some(args)
        /\ ncalls' = ncalls + 1
        /\ UNCHANGED <<An, materialObj, noiseObj, frame, rk_res, prevRead, onlyRF, excitations>>

InitializeCells(N_cells) ==
    /\ Ready
    /\ \E r \in {initialize_cells(An, probe, N_cells)} :
          /\ probe' = r.probe
          /\ exc' = r.exc
    /\ ret' = None
    /\ op' = Some([name |-> "initialize_cells", N_cells |-> N_cells])
    /\ ncalls' = ncalls + 1
    /\ rk_res' = None
    /\ prevRead' = None
    /\ onlyRF' = FALSE
    /\ UNCHANGED <<An, materialObj, noiseObj, frame, ctor, excitations>>

InitializeCoilField ==
    /\ Ready
    /\ \E r \in {initialize_coil_field(probe)} :
          /\ probe' = r.probe
          /\ exc' = r.exc
    /\ ret' = None
    /\ op' = Some([name |-> "initialize_coil_field"])
    /\ ncalls' = ncalls + 1
    /\ rk_res' = None
    /\ prevRead' = None
    /\ onlyRF' = FALSE
    /\ UNCHANGED <<An, materialObj, noiseObj, frame, ctor, excitations>>

ApplyRfField(time) ==
    /\ Ready
    /\ \E r \in {apply_rf_field(probe, time)} :
          /\ probe' = r.probe
          /\ exc' = r.exc
          /\ excitations' = IF r.exc = None THEN excitations + 1 ELSE excitations
    /\ ret' = None
    /\ op' = Some([name |-> "apply_rf_field", time |-> time])
    /\ ncalls' = ncalls + 1
    /\ rk_res' = None
    /\ prevRead' = None
    /\ UNCHANGED <<An, materialObj, noiseObj, frame, ctor, onlyRF>>

ApplyRfFieldNummerical(a) ==
    /\ Ready
    /\ \E r \in {apply_rf_field_nummerical(probe, a.time,
                     InitialCondition(a.initial_condition, probe.N_cells),
                     a.omega_rf, a.with_relaxation, a.with_self_contribution)} :
          /\ probe' = r.probe
          /\ exc' = r.exc
          /\ ret' = r.val
          /\ rk_res' = r.rk
          /\ excitations' = IF r.exc = None THEN excitations + 1 ELSE excitations
    /\ op' = Some([name |-> "apply_rf_field_nummerical", time |-> a.time,
                   initial_condition |-> a.initial_condition,
                   omega_rf |-> a.omega_rf,
                   with_relaxation |-> a.with_relaxation,
                   with_self_contribution |-> a.with_self_contribution])
    /\ ncalls' = ncalls + 1
    /\ prevRead' = None
    /\ UNCHANGED <<An, materialObj, noiseObj, frame, ctor, onlyRF>>

\* the last call was a read-out that returned
ReadReturned == op # None /\ op[1].name = "pickup_flux" /\ exc = None /\ frame = None

\* pickup_flux is called: it raises, or enters its chunk loop
PickupFluxCall(a) ==
    /\ Ready
    /\ \E r \in {pickup_flux_enter(probe, a.t, a.mix_down, a.useAverage)} :
          /\ frame' = r.frame
          /\ exc' = r.exc
    /\ ret' = None
    /\ op' = Some([name |-> "pickup_flux", t |-> a.t, mix_down |-> a.mix_down,
                   useAverage |-> a.useAverage])
    /\ ncalls' = ncalls + 1
    /\ rk_res' = None
    /\ prevRead' = IF ReadReturned THEN Some([args |-> op[1], ret |-> ret])
                   ELSE None
    /\ UNCHANGED <<An, materialObj, noiseObj, probe, ctor, onlyRF, excitations>>

\* pickup_flux keeping the last chunk as an attribute of the probe
PickupFluxTurn_Caching ==
    /\ frame # None
    /\ Len(frame[1].results) < MaxChunks
    /\ LET f == pickup_flux_turn(probe, frame[1])
       IN  /\ probe' = With(probe, [flux |-> f.results[Len(f.results)]])
           /\ IF f.idx_end # -1
              THEN /\ frame' = Some(f)
                   /\ UNCHANGED ret
              ELSE /\ frame' = None
                   /\ ret' = Some(pickup_flux_result(f))
    /\ UNCHANGED <<An, materialObj, noiseObj, op, exc, ncalls, ctor, rk_res, prevRead, onlyRF, excitations>>

\* one turn of the chunk loop of pickup_flux; after the last turn the call
\* returns
PickupFluxTurn ==
    /\ frame # None
    /\ Len(frame[1].results) < MaxChunks
    /\ LET f == pickup_flux_turn(probe, frame[1])
       IN  IF f.idx_end # -1
           THEN /\ frame' = Some(f)
                /\ UNCHANGED ret
           ELSE /\ frame' = None
                /\ ret' = Some(pickup_flux_result(f))
    /\ UNCHANGED <<An, materialObj, noiseObj, probe, op, exc, ncalls, ctor, rk_res, prevRead, onlyRF, excitations>>

ProbeNext ==
    \/ \E a \in ConstructInputs : Construct(a.length, a.diameter, a.N_cells, a.seed)
    \/ \E n \in ReinitInputs : InitializeCells(n)
    \/ InitializeCoilField
    \/ \E time \in TimeInputs : ApplyRfField(time)
    \/ \E a \in NumericalInputs : ApplyRfFieldNummerical(a)
    \/ \E a \in ReadInputs : PickupFluxCall(a)
    \/ PickupFluxTurn

SpecProbe == ProbeSpecInit /\ [][ProbeNext]_vars

(***************************************************************************)
(* The material's calls.                                                   *)
(***************************************************************************)
\* the optional arguments of Material(name, ...): each left at its default
\* None, or given
MaterialInputs ==
    [formula : {None, Some("C40H46N4O10")},
     density : {None, Some(2)},
     molar_mass : {None, Some(1)},
     T1 : {None, Some(4)},
     T2 : {None, Some(2)},
     gyromagnetic_ratio : {None, Some(1)}]

MaterialSpecInit == MagnetInit

\* Material(name, formula=..., ...)
ConstructMaterial(a) ==
    /\ ncalls < MaxCalls
    /\ \E r \in {MaterialInit("Petroleum Jelly", a.formula, a.density, a.molar_mass,
                              a.T1, a.T2, a.gyromagnetic_ratio)} :
          /\ exc' = r.exc
          /\ materialObj' = r.val
    /\ ret' = None
    /\ op' = Some([name |-> "Material", args |-> a])
    /\ ncalls' = ncalls + 1
    /\ UNCHANGED <<An, probeVars, noiseObj>>

\* str(material)
StrMaterial ==
    /\ ncalls < MaxCalls
    /\ materialObj # None
    /\ exc' = None
    /\ ret' = Some(MaterialStr(materialObj[1]))
    /\ op' = Some([name |-> "__str__"])
    /\ ncalls' = ncalls + 1
    /\ UNCHANGED <<An, probeVars, materialObj, noiseObj>>

MaterialNext ==
    \/ \E a \in MaterialInputs : ConstructMaterial(a)
    \/ StrMaterial

SpecMaterial == MaterialSpecInit /\ [][MaterialNext]_vars

(***************************************************************************)
(* Noise.  Noise values are kept in hundredths.                            *)
(***************************************************************************)
\* rng.normal(loc=0.0, scale=scale): the k-th value drawn from state s
normal(s, scale, k) == scale * (RngAfter(s, k) - RngMod \div 2)

\* Noise.__init__; entropy seeds np.random.RandomState() when rng is None
NoiseInit(white_noise, freq_power, scale_freq, drift_lin, drift_exp, drift_exp_time, rng, entropy) ==
    [freq_power |-> freq_power,
     scale_freq |-> scale_freq,
     white_noise |-> white_noise,
     drift_lin |-> drift_lin,
     drift_exp |-> drift_exp,
     drift_exp_time |-> drift_exp_time,
     rng |-> IF rng = None THEN RandomState(entropy) ELSE rng[1]]

RECURSIVE Pow(_, _)
\* np.power(b, e) for a whole e >= 0
Pow(b, e) == IF e = 0 THEN 1 ELSE b * Pow(b, e - 1)

\* Noise.get_freq_noise of up to three samples, where every non-zero
\* frequency of np.fft.fftfreq(N, d) has the magnitude 1 / (N * |d|): the
\* spectrum without its zero-frequency term is the draws less their mean,
\* scaled by |f| ** (0.5 * freq_power); freq_power is even and not positive
get_freq_noise(self, times, rng) ==
    LET N == Len(times)
        rand_noise == Arr([k \in 1..N |-> normal(rng, self.scale_freq[1], k)])
        after == RngAfter(rng, N)
    IN  IF N < 2 THEN [exc |-> Some("IndexError"), val |-> None, rng |-> after]
        ELSE LET d == times[2] - times[1]
                 scale == Pow(N * Abs(d), (-self.freq_power[1]) \div 2)
                 total == SeqSum(rand_noise)
             IN  [exc |-> None,
                  val |-> Arr([k \in 1..N |->
                              Quot(100 * (N * rand_noise[k] - total) * scale, N)]),
                  rng |-> after]

\* Noise.get_white_noise: one value drawn, whatever the length of times
get_white_noise(self, times, rng) == 100 * normal(rng, self.white_noise[1], 1)

\* Noise.get_linear_drift
get_linear_drift(self, times) ==
    Arr([k \in 1..Len(times) |-> 100 * times[k] * self.drift_lin[1]])

\* Noise.get_exp_drift
get_exp_drift(self, times) ==
    Arr([k \in 1..Len(times) |->
            self.drift_exp[1] * ExpPercent(times[k], self.drift_exp_time[1])])

\* Noise.__call__ from the white noise on: noise is the array so far
Noise_call_rest(self, times, noise, rng) ==
    LET white == IF self.white_noise # None
                 THEN get_white_noise(self, times, rng) ELSE 0
        lin == IF self.drift_lin # None
               THEN get_linear_drift(self, times) ELSE [k \in 1..Len(times) |-> 0]
        expd == IF self.drift_exp # None /\ self.drift_exp_time # None
                THEN get_exp_drift(self, times) ELSE [k \in 1..Len(times) |-> 0]
    IN  [exc |-> None,
         val |-> Some(Arr([k \in 1..Len(times) |->
                             noise[k] + white + lin[k] + expd[k]])),
         rng |-> IF self.white_noise # None THEN RngAfter(rng, 1) ELSE rng]

\* Noise.__call__(times, rng) with the generator in state rng: the error, the
\* array returned and the generator's state afterwards
Noise_call(self, times, rng) ==
    IF self.freq_power # None /\ self.scale_freq # None
    THEN LET f == get_freq_noise(self, times, rng)
         IN  IF f.exc # None THEN f
             ELSE Noise_call_rest(self, times, f.val, f.rng)
    ELSE Noise_call_rest(self, times, [k \in 1..Len(times) |-> 0], rng)

(***************************************************************************)
(* The noise's calls.                                                      *)
(***************************************************************************)
\* the arguments of Noise(...): each left at its default None, or given
NoiseInputs ==
    [white_noise : {None, Some(2)},
     freq_power : {None, Some(0), Some(-2)},
     scale_freq : {None, Some(1)},
     drift_lin : {None, Some(1)},
     drift_exp : {None, Some(3)},
     drift_exp_time : {None, Some(2)},
     rng : {None, Some(RandomState(1))}]

\* the seeds np.random.RandomState() may take from the system
EntropyInputs == {0, 5}

\* the arrays of sample times
NoiseTimes == {<<>>, <<0>>, <<0, 1>>, <<0, 2, 4>>}

\* the generator given to Noise.__call__, None for the noise's own
NoiseRngInputs == {None, Some(RandomState(3))}

NoiseSpecInit == MagnetInit

\* Noise(white_noise=..., ...)
ConstructNoise(a, entropy) ==
    /\ ncalls < MaxCalls
    /\ noiseObj' = Some(NoiseInit(a.white_noise, a.freq_power, a.scale_freq,
                                  a.drift_lin, a.drift_exp, a.drift_exp_time,
                                  a.rng, entropy))
    /\ exc' = None
    /\ ret' = None
    /\ op' = Some([name |-> "Noise", args |-> a])
    /\ ncalls' = ncalls + 1
    /\ UNCHANGED <<An, probeVars, materialObj>>

\* noise(times, rng=rng): the generator drawn from, the noise's own or the
\* caller's, is left in the state after the draws
CallNoise(times, rng) ==
    /\ ncalls < MaxCalls
    /\ noiseObj # None
    /\ \E r \in {Noise_call(noiseObj[1], times,
                            IF rng = None THEN noiseObj[1].rng ELSE rng[1])} :
          /\ exc' = r.exc
          /\ ret' = r.val
          /\ noiseObj' = IF rng = None
                         THEN Some([noiseObj[1] EXCEPT !.rng = r.rng])
                         ELSE noiseObj
          /\ op' = Some([name |-> "Noise.__call__", times |-> times, rng |-> rng,
                         rng_out |-> IF rng = None THEN None ELSE Some(r.rng)])
    /\ ncalls' = ncalls + 1
    /\ UNCHANGED <<An, probeVars, materialObj>>

NoiseNext ==
    \/ \E a \in NoiseInputs, entropy \in EntropyInputs : ConstructNoise(a, entropy)
    \/ \E times \in NoiseTimes, rng \in NoiseRngInputs : CallNoise(times, rng)

SpecNoise == NoiseSpecInit /\ [][NoiseNext]_vars

(***************************************************************************)
(* The magnet's field: strengths assigned to An, and the field evaluated.  *)
(***************************************************************************)
\* main dipole strengths of the magnets whose field is evaluated
FieldB0Inputs == {0, 1, 2}

\* the multipole ids a strength is assigned to: the dipoles and a quadrupole
AssignIds == 1..4

\* the strengths assigned
AssignStrengths == {-3, 0, 2}

\* the coordinates, in cm, of the points the field is evaluated at
FieldCoordinates == {-1, 0, 1}

FieldSpecInit ==
    /\ An \in {RingMagnetInit(B0) : B0 \in FieldB0Inputs}
    /\ op = None
    /\ exc = None
    /\ ret = None
    /\ ncalls = 0
    /\ probe = <<>>
    /\ frame = None
    /\ ctor = None
    /\ rk_res = None
    /\ prevRead = None
    /\ onlyRF = TRUE
    /\ excitations = 0
    /\ materialObj = None
    /\ noiseObj = None

\* magnet.An[multipole] = strength
AssignAn(multipole, strength) ==
    /\ ncalls < MaxCalls
    /\ An' = [An EXCEPT ![multipole] = Q(strength, 0)]
    /\ op' = Some([name |-> "An", multipole |-> multipole, strength |-> strength])
    /\ exc' = None
    /\ ret' = None
    /\ ncalls' = ncalls + 1
    /\ UNCHANGED <<probeVars, materialObj, noiseObj>>

\* magnet.B_field(x, y, z)
CallBField(x, y, z) ==
    /\ ncalls < MaxCalls
    /\ ret' = Some(B_field(An, x, y, z))
    /\ op' = Some([name |-> "B_field", x |-> x, y |-> y, z |-> z])
    /\ exc' = None
    /\ ncalls' = ncalls + 1
    /\ UNCHANGED <<An, probeVars, materialObj, noiseObj>>

FieldNext ==
    \/ \E multipole \in AssignIds, strength \in AssignStrengths :
          AssignAn(multipole, strength)
    \/ \E x, y, z \in FieldCoordinates : CallBField(x, y, z)

SpecField == FieldSpecInit /\ [][FieldNext]_vars

(***************************************************************************)
(* Claims about the magnet.                                                *)
(***************************************************************************)
\* the call just made, when there is one
Called(name) == op # None /\ op[1].name = name

\* C1: set_strength_at_1cm(multipole, strength) with multipole < 1 or
\* multipole > 24 fails with the out-of-range error (ValueError) and leaves
\* every entry of the strength table An unchanged.
C1_OutOfRangeRejected ==
    [][ (Called("set_strength_at_1cm")'
            /\ (op'[1].multipole < 1 \/ op'[1].multipole > 24))
        => (exc' = Some("ValueError") /\ An' = An) ]_vars

\* an out-of-range call of set_strength_at_1cm was made on a table that an
\* earlier call had changed
C1_Witness ==
    /\ Called("set_strength_at_1cm")
    /\ op[1].multipole = 25
    /\ exc = Some("ValueError")
    /\ ncalls = 2
    /\ An[4].num # 0

\* the order of a multipole as the bands of the index give it
BandOrder(i) ==
    CASE i \in 1..3 -> 0
      [] i \in 4..8 -> 1
      [] i \in 9..15 -> 2
      [] i \in 16..24 -> 3

\* C2: for every integer index i in 1..24, set_strength_at_1cm(i, s) sets
\* An[i] to s / (1 cm)^order * An[2], with An[2] the dipole strength before
\* the call and order 0, 1, 2, 3 for i in 1..3, 4..8, 9..15, 16..24; every
\* An[j] with j # i is left unchanged.
C2_StrengthAtReference ==
    [][ (Called("set_strength_at_1cm")' /\ op'[1].multipole \in 1..24)
        => LET i == op'[1].multipole
               s == op'[1].strength
           IN  /\ exc' = None
               /\ DOMAIN An' = MultipoleIds
               /\ An'[i] = Q(s * An[2].num, BandOrder(i) + An[2].cmpow)
               /\ \A j \in MultipoleIds \ {i} : An'[j] = An[j] ]_vars

\* a sextupole strength was set, after the dipole strength itself had been
\* rescaled by an earlier call
C2_Witness ==
    /\ Called("set_strength_at_1cm")
    /\ op[1].multipole = 9
    /\ exc = None
    /\ An[2].num \notin B0Inputs
    /\ An[9] = [num |-> op[1].strength * An[2].num, cmpow |-> 2]

\* the classification helpers
Helpers == {"multipole_name", "multipole_vector_str", "strength_to_str"}

\* C3: each classification helper (multipole_name, multipole_vector_str,
\* strength_to_str) fails with the invalid-index error for every index
\* outside 1..24; none of them returns normally for such an index.
C3_HelpersRejectInvalidIndex ==
    (op # None /\ op[1].name \in Helpers /\ op[1].multipole \notin 1..24)
        => exc = Some("ValueError")

(***************************************************************************)
(* Claims about the probe.                                                 *)
(***************************************************************************)
\* C4: constructing a Probe with N_cells < 1, or with radius <= 0, or with
\* length <= 0 fails with an error; no probe is produced for such inputs.
C4_ConstructorRejectsInvalid ==
    (Called("Probe")
        /\ (op[1].N_cells < 1 \/ op[1].diameter <= 0 \/ op[1].length <= 0))
        => (exc # None /\ ~Constructed)

\* the attributes an excitation writes, None for one the probe does not have
Magnetization(p) ==
    [a \in {"cells_mu_x", "cells_mu_y", "cells_mu_z", "cells_mu_T"} |->
        IF hasattr(p, a) THEN Some(p[a]) ELSE None]

\* the call just made is an excitation
Excited(o) == o # None /\ o[1].name \in {"apply_rf_field", "apply_rf_field_nummerical"}

\* C5: an excitation (apply_rf_field, apply_rf_field_nummerical) called with
\* a pulse duration <= 0 fails with an error and does not write cells_mu_x,
\* cells_mu_y, cells_mu_z, cells_mu_T.
C5_NonPositiveDurationRejected ==
    [][ (Excited(op') /\ ncalls' = ncalls + 1
            /\ op'[1].time # None /\ op'[1].time[1] <= 0)
        => (exc' # None /\ Magnetization(probe') = Magnetization(probe)) ]_vars

\* C6: when apply_rf_field_nummerical ran the integrator to the pulse
\* duration and the integrator finished, the stored cells_mu_x, cells_mu_y,
\* cells_mu_z are the integrator's state at t = pulse duration, the state
\* after the last step.
C6_StoresFinalState ==
    (Called("apply_rf_field_nummerical") /\ exc = None /\ rk_res # None
        /\ rk_res[1].status = "finished")
        => /\ rk_res[1].t = rk_res[1].t_bound
           /\ <<probe.cells_mu_x, probe.cells_mu_y, probe.cells_mu_z>> = rk_res[1].y

\* C7: when the integrator of apply_rf_field_nummerical stops with the
\* status "failed", the call raises: it returns no history and stores no
\* magnetization.
C7_FailureReported ==
    (Called("apply_rf_field_nummerical") /\ rk_res # None
        /\ rk_res[1].status = "failed")
        => exc # None /\ ret = None

\* the read-out of all of t at once
Unchunked(p, t, mix_down, useAverage) ==
    LET all == FluxChunk(p, t, mix_down, useAverage)
    IN  [i \in 1..Len(t) |-> Quot(all[i], Len(p.cells_B0))] \o <<>>

\* C8: for every time array t and every cell count, pickup_flux returns
\* what the unchunked formula gives for t; the chunks are consecutive
\* non-empty slices of t (one empty chunk when t is empty), concatenated in
\* the order of t.
C8_ChunkedEqualsUnchunked ==
    /\ ReadReturned
          => ret = Some(Unchunked(probe, op[1].t, op[1].mix_down, op[1].useAverage))
    /\ frame # None
          => LET f == frame[1]
                 done == Len(Concatenate(f.results))
             IN  /\ Concatenate(f.results)
                      = FluxChunk(probe, SubSeq(f.t, 1, done), f.mix_down, f.useAverage)
                 /\ \A j \in 1..Len(f.results) :
                        Len(f.results[j]) > 0 \/ Len(f.t) = 0

\* a step of pickup_flux: the call, or a turn of its loop
PickupFluxStep == \/ \E a \in ReadInputs : PickupFluxCall(a)
                  \/ PickupFluxTurn

\* C9: pickup_flux changes no attribute of the probe, and two read-outs
\* with the same arguments, one after the other, return the same result.
C9_ReadOutIsPure ==
    [][ /\ PickupFluxStep => probe' = probe
        /\ (ReadReturned' /\ prevRead' # None /\ prevRead'[1].args = op'[1])
              => ret' = prevRead'[1].ret ]_vars

\* a second read-out with the arguments of the first has returned
C9_Witness ==
    /\ ReadReturned
    /\ prevRead # None
    /\ prevRead[1].args = op[1]
    /\ Len(op[1].t) = 3
    /\ ret[1] # <<0, 0, 0>>

\* the probe the constructor call  c  makes
Fresh(c) == ProbeInit(An, c.length, c.diameter, PetroleumJelly, ProbeTemp,
                      fix_probe_coil, c.N_cells, c.seed).probe

\* the excitation call  o  made on the probe p
Excite(p, o) ==
    IF o.name = "apply_rf_field" THEN apply_rf_field(p, o.time)
    ELSE apply_rf_field_nummerical(p, o.time,
             InitialCondition(o.initial_condition, p.N_cells), o.omega_rf,
             o.with_relaxation, o.with_self_contribution)

\* C10: after any sequence of excitations and read-outs on a probe, an
\* excitation (apply_rf_field, or apply_rf_field_nummerical with
\* initial_condition = None) leaves cells_mu_x, cells_mu_y, cells_mu_z and
\* cells_mu_T as the same call alone leaves them on a freshly constructed
\* identical probe.
C10_ExcitationOverwrites ==
    (Excited(op) /\ onlyRF /\ exc = None
        /\ (op[1].name = "apply_rf_field_nummerical" => op[1].initial_condition = "None"))
        => Magnetization(probe) = Magnetization(Excite(Fresh(ctor[1]), op[1]).probe)

\* a numerical excitation from equilibrium has run, on a probe that an
\* earlier excitation had left with another magnetization
C10_Witness ==
    /\ Called("apply_rf_field_nummerical")
    /\ op[1].initial_condition = "None"
    /\ op[1].time = Some(3)
    /\ exc = None
    /\ onlyRF
    /\ excitations = 2
    /\ probe.N_cells = 3
    /\ probe.cells_mu_x # EquilibriumCondition(probe)[1]

\* the per-cell arrays of a probe
PerCellArrays ==
    {"cells_x", "cells_y", "cells_z",
     "cells_B0_x", "cells_B0_y", "cells_B0_z", "cells_B0",
     "cells_nuclear_polarization", "cells_magnetization",
     "cells_B1_x", "cells_B1_y", "cells_B1_z", "cells_B1",
     "cells_mu_x", "cells_mu_y", "cells_mu_z", "cells_mu_T"}

\* the coil-field arrays of the probe p are those of its current cells
CoilFieldOfCurrentCells(p) ==
    LET now == coil_field_attributes(
                  [k \in 1..Len(p.cells_x) |->
                      CoilBField(p.coil, p.cells_x[k], p.cells_y[k], p.cells_z[k])])
    IN  \A a \in DOMAIN now : p[a] = now[a]

\* C12: after any sequence of the probe's operations, the per-cell arrays
\* that exist all have the same length, and entry k of each belongs to cell
\* k of the current placement (the coil field is the field at the current
\* positions).
C12_PerCellArraysAligned ==
    (Constructed /\ frame = None)
        => /\ \A a, b \in PerCellArrays \cap DOMAIN probe :
                 Len(probe[a]) = Len(probe[b])
           /\ hasattr(probe, "cells_B1") => CoilFieldOfCurrentCells(probe)

\* C13: the chunk loop of pickup_flux terminates for every cell count and
\* every length of t: in every turn that is not the last, the start index
\* strictly increases (the next turn starts after where this one started).
C13_ChunkLoopAdvances ==
    [][ (frame # None /\ frame' # None)
        => /\ frame'[1].idx_end > frame'[1].idx_start
           /\ Len(frame'[1].results) <= Len(frame'[1].t) ]_vars

\* C14: the history apply_rf_field_nummerical returns has snapshots at
\* strictly increasing times, and its last snapshot is the state at
\* t = pulse duration: the step that reaches t_bound is recorded.
C14_HistoryReachesEnd ==
    (Called("apply_rf_field_nummerical") /\ exc = None /\ rk_res # None
        /\ rk_res[1].status = "finished" /\ rk_res[1].t_bound > 0)
        => LET history == ret[1]
               last == history[Len(history)]
           IN  /\ \A k \in 1..(Len(history) - 1) : history[k][1] < history[k + 1][1]
               /\ last[1] = rk_res[1].t_bound
               /\ <<last[2], last[3], last[4]>>
                     = <<Mean(rk_res[1].y[1]), Mean(rk_res[1].y[2]), Mean(rk_res[1].y[3])>>

\* C17: a probe that was constructed and not yet excited cannot be read out:
\* pickup_flux fails with an error (AttributeError) before it computes
\* anything, and leaves the probe as it was; a read-out returns only after at
\* least one excitation has completed.
C17_NoReadOutBeforeExcitation ==
    [][ /\ (Called("pickup_flux")' /\ ncalls' = ncalls + 1 /\ excitations = 0)
            => /\ exc' = Some("AttributeError")
               /\ frame' = None /\ ret' = None
               /\ probe' = probe
        /\ ReadReturned' => excitations' >= 1 ]_vars

\* pickup_flux was called on a constructed probe with its cells and its coil
\* field, never excited, and failed
C17_Witness ==
    /\ Called("pickup_flux") /\ exc = Some("AttributeError")
    /\ excitations = 0
    /\ hasattr(probe, "cells_B0") /\ hasattr(probe, "cells_B1")
    /\ probe.N_cells = 3

(***************************************************************************)
(* Claims about the material.                                              *)
(***************************************************************************)
\* the optional fields of a Material, in the order __str__ prints them
MaterialFields == <<"formula", "density", "molar_mass", "T1", "T2", "gyromagnetic_ratio">>

\* the optional fields of the material m that are set, in that order
FieldsSet(m) == SelectSeq(MaterialFields, LAMBDA f : m[f] # None)

\* C11: constructing a Material never fails, whichever of formula, density,
\* molar_mass, T1, T2, gyromagnetic_ratio are left at their default: an
\* instance is returned, and its string form has one piece for each field
\* that is set and none for a field that is unset.
C11_MaterialNeverFails ==
    /\ Called("Material") => (exc = None /\ materialObj # None)
    /\ (Called("__str__") /\ materialObj # None)
          => LET set == FieldsSet(materialObj[1])
             IN  /\ Len(ret[1].info) = Len(set)
                 /\ \A k \in 1..Len(set) :
                        ret[1].info[k][1] = materialObj[1][set[k]][1]

\* C18: set_strength_at_1cm is idempotent for every index 1..24: a second
\* call with the same multipole and strength, right after the first, leaves
\* the strength table An as the first call left it.
C18_SetStrengthIdempotent ==
    [][ (/\ Called("set_strength_at_1cm") /\ exc = None
         /\ Called("set_strength_at_1cm")' /\ ncalls' = ncalls + 1
         /\ op'[1].multipole \in 1..24
         /\ op'[1].multipole = op[1].multipole
         /\ op'[1].strength = op[1].strength)
        => An' = An ]_vars

(***************************************************************************)
(* Claims about the noise.                                                 *)
(***************************************************************************)
\* the noise object has white_noise set and nothing else
OnlyWhiteNoise(n) ==
    /\ n.white_noise # None
    /\ n.freq_power = None /\ n.scale_freq = None
    /\ n.drift_lin = None
    /\ n.drift_exp = None /\ n.drift_exp_time = None

\* C15: when only white_noise is set, Noise.__call__(times, rng) takes one
\* draw from the generator for each element of times, so 1000 sample times
\* give 1000 draws: sample k of the result is the k-th value drawn, and the
\* generator is left Len(times) draws on, rather than a single draw being
\* added to every sample.
C15_WhiteNoisePerSample ==
    [][ (Called("Noise.__call__")' /\ exc' = None /\ noiseObj # None
            /\ OnlyWhiteNoise(noiseObj[1]))
        => LET times == op'[1].times
               own == op'[1].rng = None
               before == IF own THEN noiseObj[1].rng ELSE op'[1].rng[1]
               after == IF own THEN noiseObj'[1].rng ELSE op'[1].rng_out[1]
           IN  /\ after = RngAfter(before, Len(times))
               /\ \A k \in 1..Len(times) :
                     ret'[1][k] = 100 * normal(before, noiseObj[1].white_noise[1], k) ]_vars

(***************************************************************************)
(* Claims about the magnet's field.                                        *)
(***************************************************************************)
\* An[i] is the only non-zero strength of the table
OnlyStrength(table, i) ==
    /\ table[i].num # 0
    /\ \A j \in MultipoleIds \ {i} : table[j].num = 0

\* C16: for each dipole index i in {1, 2, 3}, a magnet whose only non-zero
\* strength is An[i] = s has at every point the field s * (1, 0, 0),
\* s * (0, 1, 0), s * (0, 0, 1) respectively.
C16_DipoleIsUnitVector ==
    Called("B_field") =>
        \A i \in 1..3 :
            OnlyStrength(An, i) =>
                ret[1] = << IF i = 1 THEN An[i].num ELSE 0,
                            IF i = 2 THEN An[i].num ELSE 0,
                            IF i = 3 THEN An[i].num ELSE 0 >>

====
